---------------------------- MODULE Spec2Model ----------------------------
(***************************************************************************)
(* Model of docs/post_processing_html.py: the post-processing script that  *)
(* removes duplicated contributors from the compiled VuePress page assets. *)
(*                                                                         *)
(* A Python str is a sequence of one-character strings.  A JSON value is a *)
(* record [t, v]: t is "dict", "list", "str" or "int"; a dict's v is the   *)
(* sequence of its <<key, value>> pairs in insertion order (Python dicts    *)
(* keep it), a list's v the sequence of its items, a str's v its           *)
(* characters and an int's v the number.                                   *)
(***************************************************************************)
EXTENDS Integers, Sequences, FiniteSets, TLC

VARIABLES
    pc,                     \* position of the behaviour being explored
    doc, variant, text, decoded, recomposed,   \* codec round trips
    x, y, z,                \* remove_duplicated_contributors applied once, twice
    files,                  \* path -> content of the files under dist/assets
    walk,                   \* the order in which grep -r lists the files
    e_contributors_files,   \* module-level list, line 12
    t_contributors_files,   \* module-level list, line 15
    idx,                    \* position of the running for loop in its list
    run,                    \* which invocation of the script is running
    log,                    \* the files opened by the two loops of this run
    lastWrite,              \* the last inject: path, loop, content read before
    orig,                   \* the tree before the first run
    afterRun1               \* the tree when the first run ended

vars == <<pc, doc, variant, text, decoded, recomposed, x, y, z, files, walk,
          e_contributors_files, t_contributors_files, idx, run, log,
          lastWrite, orig, afterRun1>>

---------------------------------------------------------------------------
(* Characters and string literals of the source.                           *)

BSL == "\\"
QUO == "\""
SQ  == "'"
\* the backquote, which a TLA+ string literal cannot hold
BT  == "BACKQUOTE"

S_const   == <<"c", "o", "n", "s", "t", " ">>
S_parse   == <<"=", "J", "S", "O", "N", ".", "p", "a", "r", "s", "e", "(">>
S_export  == <<")", ";", "e", "x", "p", "o", "r", "t", "{">>
S_as_data == <<" ", "a", "s", " ", "d", "a", "t", "a", "}", ";">>

\* "const e" and "const t", lines 32 and 36
ConstE == S_const \o <<"e">>
ConstT == S_const \o <<"t">>

\* the wrapper templates of json_source and of the compose functions
PrefixEA == ConstE \o S_parse \o <<SQ>>
SuffixEA == <<SQ>> \o S_export \o <<"e">> \o S_as_data
PrefixEB == ConstE \o S_parse \o <<BT>>
SuffixEB == <<BT>> \o S_export \o <<"e">> \o S_as_data
PrefixTA == ConstT \o S_parse \o <<SQ>>
SuffixTA == <<SQ>> \o S_export \o <<"t">> \o S_as_data
PrefixTB == ConstT \o S_parse \o <<BT>>
SuffixTB == <<BT>> \o S_export \o <<"t">> \o S_as_data

K_git          == <<"g", "i", "t">>
K_contributors == <<"c", "o", "n", "t", "r", "i", "b", "u", "t", "o", "r", "s">>
K_name         == <<"n", "a", "m", "e">>
K_commits      == <<"c", "o", "m", "m", "i", "t", "s">>
S_html         == <<"h", "t", "m", "l">>
S_js           == <<".", "j", "s">>

---------------------------------------------------------------------------
(* Python str operations.                                                  *)

\* s[i:i+len(p)] == p
MatchAt(s, p, i) ==
    /\ i + Len(p) - 1 <= Len(s)
    /\ \A k \in 1..Len(p) : s[i + k - 1] = p[k]

\* p in s
Contains(s, p) == \E i \in 1..(Len(s) - Len(p) + 1) : MatchAt(s, p, i)

\* s.find(p, i): the first occurrence of p at or after i, 0 when none
Find(s, p, i) ==
    LET found == {j \in i..(Len(s) - Len(p) + 1) : MatchAt(s, p, j)}
    IN  IF found = {} THEN 0
        ELSE CHOOSE j \in found : \A k \in found : j <= k

\* s.replace(old, new): every non-overlapping occurrence, left to right
RECURSIVE ReplaceFrom(_, _, _, _)
ReplaceFrom(s, old, new, i) ==
    LET j == Find(s, old, i)
    IN  IF j = 0 THEN SubSeq(s, i, Len(s))
        ELSE SubSeq(s, i, j - 1) \o new
             \o ReplaceFrom(s, old, new, j + Len(old))

str_replace(s, old, new) == ReplaceFrom(s, old, new, 1)

\* s[::-1] of a list
Reverse(s) == [i \in 1..Len(s) |-> s[Len(s) + 1 - i]]

\* grep -i folds case; the letters of "contributors" are the ones that matter
Lower(c) ==
    CASE c = "C" -> "c" [] c = "O" -> "o" [] c = "N" -> "n" [] c = "T" -> "t"
      [] c = "R" -> "r" [] c = "I" -> "i" [] c = "B" -> "b" [] c = "U" -> "u"
      [] c = "S" -> "s" [] OTHER -> c

LowerStr(s) == [i \in 1..Len(s) |-> Lower(s[i])]

---------------------------------------------------------------------------
(* JSON values and Python dict and list operations.                        *)

JStr(s)  == [t |-> "str", v |-> s]
JInt(n)  == [t |-> "int", v |-> n]
JList(s) == [t |-> "list", v |-> s]
JDict(s) == [t |-> "dict", v |-> s]

\* a result, or the exception that ends the run
Ok(v) == [ok |-> TRUE, val |-> v]
Raise == [ok |-> FALSE]

\* Python ==, on values of the four kinds
ValEq(a, b) == a.t = b.t /\ a.v = b.v

\* what a dict accepts as a key
Hashable(a) == a.t \in {"str", "int"}

HasKey(items, k) == \E i \in 1..Len(items) : ValEq(items[i][1], k)

KeyIndex(items, k) == CHOOSE i \in 1..Len(items) : ValEq(items[i][1], k)

\* a dict that moves a key it already holds to the end when it is set again
DictSetMovingKey(items, k, v) ==
    Append(SelectSeq(items, LAMBDA p : ~ValEq(p[1], k)), <<k, v>>)

\* d[k] = v: a new key goes last, an old key keeps its place and gets v
DictSet(items, k, v) ==
    IF HasKey(items, k)
    THEN [items EXCEPT ![KeyIndex(items, k)] = <<k, v>>]
    ELSE Append(items, <<k, v>>)

\* a[k] for a str key: KeyError or TypeError unless a is a dict holding k
GetItem(a, k) ==
    IF a.t = "dict" /\ HasKey(a.v, JStr(k))
    THEN Ok(a.v[KeyIndex(a.v, JStr(k))][2])
    ELSE Raise

\* list(d.values())
Values(items) == [i \in 1..Len(items) |-> items[i][2]]

---------------------------------------------------------------------------
(* json.loads and json.dumps, on the JSON the model's files hold: objects, *)
(* arrays, strings with the two-character escapes, and integers.  No       *)
(* modelled text holds a float, a literal (true, false, null) or a \u      *)
(* escape followed by four hex digits, so the decoder rejects them.        *)

Digits == <<"0", "1", "2", "3", "4", "5", "6", "7", "8", "9">>
IsDigit(c) == \E d \in 1..10 : Digits[d] = c
DigitVal(c) == (CHOOSE d \in 1..10 : Digits[d] = c) - 1

Whitespace == {" ", "\n", "\r", "\t"}
\* the characters json.loads refuses inside a string (strict mode)
Control == {"\n", "\r", "\t", "\f", "BACKSPACE"}

\* BACKSLASH_DCT of json.decoder: the character after the backslash -> the
\* character it stands for
Escaped == {QUO, BSL, "/", "b", "f", "n", "r", "t"}
Unescape(c) ==
    CASE c = "b" -> "BACKSPACE" [] c = "f" -> "\f" [] c = "n" -> "\n"
      [] c = "r" -> "\r" [] c = "t" -> "\t" [] OTHER -> c

RECURSIVE SkipWs(_, _)
SkipWs(s, i) ==
    IF i <= Len(s) /\ s[i] \in Whitespace THEN SkipWs(s, i + 1) ELSE i

Parsed(v, i) == [ok |-> TRUE, val |-> v, pos |-> i]
ParseError == [ok |-> FALSE]

\* py_scanstring, from the character after the opening quote
RECURSIVE ParseString(_, _, _)
ParseString(s, i, acc) ==
    IF i > Len(s) THEN ParseError
    ELSE IF s[i] = QUO THEN Parsed(JStr(acc), i + 1)
    ELSE IF s[i] = BSL
         THEN IF i + 1 <= Len(s) /\ s[i + 1] \in Escaped
              THEN ParseString(s, i + 2, Append(acc, Unescape(s[i + 1])))
              ELSE ParseError
    ELSE IF s[i] \in Control THEN ParseError
    ELSE ParseString(s, i + 1, Append(acc, s[i]))

\* the digits of an integer, from its first digit
RECURSIVE ParseDigits(_, _, _)
ParseDigits(s, i, n) ==
    IF i <= Len(s) /\ IsDigit(s[i])
    THEN ParseDigits(s, i + 1, 10 * n + DigitVal(s[i]))
    ELSE Parsed(JInt(n), i)

\* NUMBER_RE: -?(0|[1-9]\d*)
ParseNumber(s, i) ==
    LET neg == s[i] = "-"
        j   == IF neg THEN i + 1 ELSE i
        r   == IF j > Len(s) \/ ~IsDigit(s[j]) THEN ParseError
               ELSE IF s[j] = "0" THEN Parsed(JInt(0), j + 1)
               ELSE ParseDigits(s, j, 0)
    IN  IF r.ok /\ neg THEN Parsed(JInt(0 - r.val.v), r.pos) ELSE r

RECURSIVE ParseValue(_, _)
RECURSIVE ParseItems(_, _, _)
RECURSIVE ParsePairs(_, _, _)

\* JSONArray after its first item: i is at the start of the next item
ParseItems(s, i, acc) ==
    LET r == ParseValue(s, i)
        j == IF r.ok THEN SkipWs(s, r.pos) ELSE 0
    IN  IF ~r.ok \/ j > Len(s) THEN ParseError
        ELSE IF s[j] = "]" THEN Parsed(JList(Append(acc, r.val)), j + 1)
        ELSE IF s[j] = "," THEN ParseItems(s, j + 1, Append(acc, r.val))
        ELSE ParseError

\* JSONObject: i is where the next key's opening quote must be
ParsePairs(s, i, acc) ==
    LET j == SkipWs(s, i)
        k == IF j <= Len(s) /\ s[j] = QUO
             THEN ParseString(s, j + 1, <<>>) ELSE ParseError
        c == IF k.ok THEN SkipWs(s, k.pos) ELSE 0
        r == IF k.ok /\ c <= Len(s) /\ s[c] = ":"
             THEN ParseValue(s, c + 1) ELSE ParseError
        e == IF r.ok THEN SkipWs(s, r.pos) ELSE 0
    IN  IF ~r.ok \/ e > Len(s) THEN ParseError
        ELSE IF s[e] = "}" THEN Parsed(JDict(DictSet(acc, k.val, r.val)), e + 1)
        ELSE IF s[e] = "," THEN ParsePairs(s, e + 1, DictSet(acc, k.val, r.val))
        ELSE ParseError

\* scan_once, after optional whitespace
ParseValue(s, i) ==
    LET j == SkipWs(s, i)
    IN  IF j > Len(s) THEN ParseError
        ELSE IF s[j] = QUO THEN ParseString(s, j + 1, <<>>)
        ELSE IF s[j] = "{"
             THEN LET n == SkipWs(s, j + 1)
                  IN  IF n <= Len(s) /\ s[n] = "}" THEN Parsed(JDict(<<>>), n + 1)
                      ELSE ParsePairs(s, n, <<>>)
        ELSE IF s[j] = "["
             THEN LET n == SkipWs(s, j + 1)
                  IN  IF n <= Len(s) /\ s[n] = "]" THEN Parsed(JList(<<>>), n + 1)
                      ELSE ParseItems(s, n, <<>>)
        ELSE IF s[j] = "-" \/ IsDigit(s[j]) THEN ParseNumber(s, j)
        ELSE ParseError

\* json.loads(s): one value and nothing but whitespace after it
json_loads(s) ==
    LET r == ParseValue(s, 1)
    IN  IF r.ok /\ SkipWs(s, r.pos) > Len(s) THEN Ok(r.val) ELSE Raise

\* str(n) for n >= 0
RECURSIVE NatToStr(_)
NatToStr(n) ==
    IF n < 10 THEN <<Digits[n + 1]>>
    ELSE Append(NatToStr(n \div 10), Digits[(n % 10) + 1])

IntToStr(n) == IF n < 0 THEN <<"-">> \o NatToStr(0 - n) ELSE NatToStr(n)

\* ESCAPE_DCT of json.encoder (ensure_ascii)
EscapeChar(c) ==
    CASE c = QUO -> <<BSL, QUO>> [] c = BSL -> <<BSL, BSL>>
      [] c = "\n" -> <<BSL, "n">> [] c = "\r" -> <<BSL, "r">>
      [] c = "\t" -> <<BSL, "t">> [] c = "\f" -> <<BSL, "f">>
      [] c = "BACKSPACE" -> <<BSL, "b">> [] OTHER -> <<c>>

RECURSIVE EscapeFrom(_, _)
EscapeFrom(s, i) ==
    IF i > Len(s) THEN <<>> ELSE EscapeChar(s[i]) \o EscapeFrom(s, i + 1)

\* json.dumps(a, separators=(item, key))
RECURSIVE Dumps(_, _, _)
RECURSIVE DumpItems(_, _, _, _)
RECURSIVE DumpPairs(_, _, _, _)

DumpItems(items, i, item, key) ==
    IF i > Len(items) THEN <<>>
    ELSE (IF i > 1 THEN item ELSE <<>>)
         \o Dumps(items[i], item, key) \o DumpItems(items, i + 1, item, key)

DumpPairs(items, i, item, key) ==
    IF i > Len(items) THEN <<>>
    ELSE (IF i > 1 THEN item ELSE <<>>)
         \o Dumps(items[i][1], item, key) \o key
         \o Dumps(items[i][2], item, key) \o DumpPairs(items, i + 1, item, key)

Dumps(a, item, key) ==
    CASE a.t = "str"  -> <<QUO>> \o EscapeFrom(a.v, 1) \o <<QUO>>
      [] a.t = "int"  -> IntToStr(a.v)
      [] a.t = "list" -> <<"[">> \o DumpItems(a.v, 1, item, key) \o <<"]">>
      [] a.t = "dict" -> <<"{">> \o DumpPairs(a.v, 1, item, key) \o <<"}">>

\* the separators json.dumps uses when none are given
ItemSeparator == <<",", " ">>
KeySeparator  == <<":", " ">>

\* json.dumps(a, separators=(",", ":"))
json_dumps_compact(a) == Dumps(a, <<",">>, <<":">>)

\* json.dumps(a) with its default arguments
json_dumps(a) == Dumps(a, ItemSeparator, KeySeparator)

---------------------------------------------------------------------------
(* The functions of post_processing_html.py.                               *)

\* one `if` block of json_source: when the prefix occurs anywhere in the
\* text, every occurrence of the prefix and of the suffix is removed and
\* every doubled backslash is halved
Decompose(raw_source, prefix, suffix) ==
    IF Contains(raw_source, prefix)
    THEN str_replace(str_replace(str_replace(raw_source, prefix, <<>>),
                                 suffix, <<>>),
                     <<BSL, BSL>>, <<BSL>>)
    ELSE raw_source

\* the four `if` blocks run one after the other, each on the result of the
\* one before
Decomposed(raw_source) ==
    Decompose(Decompose(Decompose(Decompose(raw_source,
        PrefixEA, SuffixEA), PrefixEB, SuffixEB), PrefixTA, SuffixTA),
        PrefixTB, SuffixTB)

json_source(raw_source) == json_loads(Decomposed(raw_source))

\* json_source["git"]["contributors"]
get_raw_contributors(js) ==
    LET g == GetItem(js, K_git)
    IN  IF g.ok THEN GetItem(g.val, K_contributors) ELSE Raise

\* {d["name"]: d for d in rev}, from item i on
RECURSIVE DictByName(_, _, _)
DictByName(rev, i, acc) ==
    IF i > Len(rev) THEN Ok(acc)
    ELSE LET n == GetItem(rev[i], K_name)
         IN  IF n.ok /\ Hashable(n.val)
             THEN DictByName(rev, i + 1, DictSet(acc, n.val, rev[i]))
             ELSE Raise

\* the comprehension run over contributors instead of contributors[::-1]
remove_duplicated_forward(contributors) ==
    IF contributors.t = "list"
    THEN LET d == DictByName(contributors.v, 1, <<>>)
         IN  IF d.ok THEN Ok(JList(Values(d.val))) ELSE Raise
    ELSE IF contributors.t = "str" /\ contributors.v = <<>> THEN Ok(JList(<<>>))
    ELSE Raise

\* list({d["name"]: d for d in contributors[::-1]}.values()); a str can be
\* sliced too but its characters have no ["name"], a dict or an int cannot
remove_duplicated_contributors(contributors) ==
    IF contributors.t = "list"
    THEN LET d == DictByName(Reverse(contributors.v), 1, <<>>)
         IN  IF d.ok THEN Ok(JList(Values(d.val))) ELSE Raise
    ELSE IF contributors.t = "str" /\ contributors.v = <<>> THEN Ok(JList(<<>>))
    ELSE Raise

\* json_source["git"]["contributors"] = contributors
SetContributors(js, contributors) ==
    LET g == GetItem(js, K_git).val
    IN  JDict(DictSet(js.v, JStr(K_git),
                      JDict(DictSet(g.v, JStr(K_contributors), contributors))))

\* called once get_raw_contributors(json_source) has returned
append_contributors(js, contributors) ==
    json_dumps(SetContributors(js, contributors))

e_compose_source(dumped) ==
    str_replace(PrefixEA \o dumped \o SuffixEA, <<BSL>>, <<BSL, BSL>>)

t_compose_source(dumped) ==
    str_replace(PrefixTA \o dumped \o SuffixTA, <<BSL>>, <<BSL, BSL>>)

\* an open file: its content and the position of the next read or write
Opened(content) == [content |-> content, pos |-> 0]
FileRead(f)     == [f EXCEPT !.pos = Len(f.content)]
FileSeek(f, p)  == [f EXCEPT !.pos = p]
Padding(n)      == [i \in 1..n |-> "NUL"]
FileTruncate(f, n) ==
    [f EXCEPT !.content =
        IF n <= Len(f.content) THEN SubSeq(f.content, 1, n)
        ELSE f.content \o Padding(n - Len(f.content))]
FileWrite(f, s) ==
    LET head == IF f.pos <= Len(f.content) THEN SubSeq(f.content, 1, f.pos)
                ELSE f.content \o Padding(f.pos - Len(f.content))
        tail == SubSeq(f.content, f.pos + Len(s) + 1, Len(f.content))
    IN  [content |-> head \o s \o tail, pos |-> f.pos + Len(s)]

\* inject without f.truncate(0)
inject_keeping_rest(f, composed_source) ==
    FileWrite(FileSeek(f, 0), composed_source)

\* f.seek(0); f.truncate(0); f.write(composed_source)
inject(f, composed_source) ==
    FileWrite(FileTruncate(FileSeek(f, 0), 0), composed_source)

\* the compose function of a loop
Compose(v, dumped) ==
    IF v = "e" THEN e_compose_source(dumped) ELSE t_compose_source(dumped)

\* find_files: grep -ril contributors lists the files whose content holds
\* the word in any case, in the order it walks them; of those whose name
\* holds "html" and ".js", the ones with `const e` go to the first list and
\* the ones with `const t` to the second
GrepOutput(order, fs) ==
    SelectSeq(order, LAMBDA p : Contains(LowerStr(fs[p]), K_contributors))

FoundWith(order, fs, token) ==
    SelectSeq(GrepOutput(order, fs),
              LAMBDA p : /\ Contains(p, S_html) /\ Contains(p, S_js)
                         /\ Contains(fs[p], token))

\* the guard with a contributor counted as "more than 1" already
AtLeastOne(raw_contributors) == Len(raw_contributors.v) >= 1

\* len(raw_contributors) > 1, of a list, a str or a dict
MoreThanOne(raw_contributors) == Len(raw_contributors.v) > 1

\* the body of a loop with the exception caught and the loop going on
CaughtAndContinued(loop, ok) == loop

\* nothing catches an exception raised in the body of a loop: the script
\* ends there, otherwise the loop goes on
AfterBody(loop, ok) == IF ok THEN loop ELSE "crashed"

\* how one iteration of a loop ends: with an exception, with the file
\* left alone, or with the file holding content
Raised(raw)      == [ok |-> FALSE, wrote |-> FALSE, content |-> raw]
Skipped(raw)     == [ok |-> TRUE, wrote |-> FALSE, content |-> raw]
Written(content) == [ok |-> TRUE, wrote |-> TRUE, content |-> content]

\* lines 170-174 (188-192): c is what remove_duplicated_contributors gave
Injected(raw, loop, js, c) ==
    IF ~c.ok THEN Raised(raw)
    ELSE Written(inject(FileRead(Opened(raw)),
                        Compose(loop, append_contributors(js, c.val))).content)

\* lines 168-169 (186-187): rc is what get_raw_contributors gave; len()
\* raises on an int
Guarded(raw, loop, js, rc) ==
    IF ~rc.ok \/ rc.val.t = "int" THEN Raised(raw)
    ELSE IF ~MoreThanOne(rc.val) THEN Skipped(raw)
    ELSE Injected(raw, loop, js, remove_duplicated_contributors(rc.val))

\* line 166 (184): js is what json_source gave
Loaded(raw, loop, js) ==
    IF ~js.ok THEN Raised(raw)
    ELSE Guarded(raw, loop, js.val, get_raw_contributors(js.val))

\* the body of one iteration of either loop, on a file holding raw;
\* loop is "e" or "t"
LoopBody(raw, loop) == Loaded(raw, loop, json_source(raw))

---------------------------------------------------------------------------
(* Bounds and the inputs drawn within them.                                *)

\* the longest contributor list given to remove_duplicated_contributors
MaxContributors == 3
\* the most pieces a string value of a round-tripped document is made of
MaxPieces == 2

\* a variable the specification at hand does not use
Unused == "-"
\* a result not computed yet
None == [ok |-> FALSE]

\* {"name": n, "commits": c}
Contributor(n, c) ==
    JDict(<<<<JStr(K_name), JStr(n)>>, <<JStr(K_commits), JInt(c)>>>>)

Names   == {<<"A">>, <<"B">>, <<"C">>}
Commits == {1, 2, 5}
Contributors == {Contributor(n, c) : n \in Names, c \in Commits}

ContributorLists ==
    UNION {[1..n -> Contributors] : n \in 0..MaxContributors}

\* {"git": {"contributors": list}, "title": title}
Document(list, title) ==
    JDict(<<<<JStr(K_git), JDict(<<<<JStr(K_contributors), JList(list)>>>>)>>,
            <<JStr(<<"t", "i", "t", "l", "e">>), JStr(title)>>>>)

\* what the string values are made of: a backslash, the two quotes, a
\* letter, and the wrapper prefixes and suffixes of both bindings
Pieces == {<<BSL>>, <<QUO>>, <<SQ>>, <<"A">>,
           PrefixEA, SuffixEA, PrefixTA, SuffixTA, PrefixEB, PrefixTB}

RECURSIVE Concat(_, _)
Concat(ps, i) == IF i > Len(ps) THEN <<>> ELSE ps[i] \o Concat(ps, i + 1)

Strings == {Concat(ps, 1) : ps \in UNION {[1..n -> Pieces] : n \in 0..MaxPieces}}

Documents == {Document(<<Contributor(<<"A">>, 1)>>, s) : s \in Strings}

---------------------------------------------------------------------------
(* SpecDedupe: remove_duplicated_contributors on every bounded list, once  *)
(* and then again on its own result.                                       *)

InitDedupe ==
    /\ pc = "input"
    /\ x \in ContributorLists
    /\ y = None /\ z = None
    /\ doc = Unused /\ variant = Unused /\ text = Unused
    /\ decoded = Unused /\ recomposed = Unused
    /\ files = Unused /\ walk = Unused /\ e_contributors_files = Unused
    /\ t_contributors_files = Unused /\ idx = Unused /\ run = Unused
    /\ log = Unused /\ lastWrite = Unused /\ orig = Unused
    /\ afterRun1 = Unused

DedupeOnce ==
    /\ pc = "input"
    /\ y' = remove_duplicated_contributors(JList(x))
    /\ pc' = "once"
    /\ UNCHANGED <<doc, variant, text, decoded, recomposed, x, z, files, walk,
                   e_contributors_files, t_contributors_files, idx, run, log,
                   lastWrite, orig, afterRun1>>

DedupeTwice ==
    /\ pc = "once"
    /\ y.ok
    /\ z' = remove_duplicated_contributors(y.val)
    /\ pc' = "twice"
    /\ UNCHANGED <<doc, variant, text, decoded, recomposed, x, y, files, walk,
                   e_contributors_files, t_contributors_files, idx, run, log,
                   lastWrite, orig, afterRun1>>

NextDedupe == DedupeOnce \/ DedupeTwice

SpecDedupe == InitDedupe /\ [][NextDedupe]_vars

---------------------------------------------------------------------------
(* SpecCodec: a document is composed into a source text with one of the    *)
(* two compose functions, the text is loaded with json_source, and the     *)
(* loaded document is composed again.                                      *)

InitCodec ==
    /\ pc = "doc"
    /\ doc \in Documents
    /\ variant \in {"e", "t"}
    /\ text = <<>> /\ decoded = None /\ recomposed = <<>>
    /\ x = Unused /\ y = Unused /\ z = Unused
    /\ files = Unused /\ walk = Unused /\ e_contributors_files = Unused
    /\ t_contributors_files = Unused /\ idx = Unused /\ run = Unused
    /\ log = Unused /\ lastWrite = Unused /\ orig = Unused
    /\ afterRun1 = Unused

ComposeDoc ==
    /\ pc = "doc"
    /\ text' = Compose(variant, json_dumps(doc))
    /\ pc' = "text"
    /\ UNCHANGED <<doc, variant, decoded, recomposed, x, y, z, files, walk,
                   e_contributors_files, t_contributors_files, idx, run, log,
                   lastWrite, orig, afterRun1>>

LoadText ==
    /\ pc = "text"
    /\ decoded' = json_source(text)
    /\ pc' = "decoded"
    /\ UNCHANGED <<doc, variant, text, recomposed, x, y, z, files, walk,
                   e_contributors_files, t_contributors_files, idx, run, log,
                   lastWrite, orig, afterRun1>>

ComposeAgain ==
    /\ pc = "decoded"
    /\ decoded.ok
    /\ recomposed' = Compose(variant, json_dumps(decoded.val))
    /\ pc' = "recomposed"
    /\ UNCHANGED <<doc, variant, text, decoded, x, y, z, files, walk,
                   e_contributors_files, t_contributors_files, idx, run, log,
                   lastWrite, orig, afterRun1>>

NextCodec == ComposeDoc \/ LoadText \/ ComposeAgain

SpecCodec == InitCodec /\ [][NextCodec]_vars

---------------------------------------------------------------------------
(* Spec: the script run on a tree of page files, and run again once the    *)
(* first run has ended.                                                    *)

\* the page files of the tree
NumFiles == 2
\* the runs of the script, one after the other
MaxRuns == 2

\* "p1.html.js", ...: the compiled pages, and "app.js", no page
PagePath(i) == <<"p">> \o NatToStr(i) \o <<".">> \o S_html \o S_js
AppPath     == <<"a", "p", "p">> \o S_js
PagePaths   == {PagePath(i) : i \in 1..NumFiles}
\* the orders in which grep -r can list the files: the pages in any order,
\* then app.js (its place changes nothing: its name is filtered out)
Walks ==
    {[i \in 1..(NumFiles + 1) |->
         IF i <= NumFiles THEN PagePath(o[i]) ELSE AppPath] :
     o \in {f \in [1..NumFiles -> 1..NumFiles] :
               \A i, j \in 1..NumFiles : f[i] = f[j] => i = j}}

\* JSON.stringify of the site generator: no whitespace
Stringify(a) == Dumps(a, <<",">>, <<":">>)

A1 == Contributor(<<"A">>, 1)
A5 == Contributor(<<"A">>, 5)
B2 == Contributor(<<"B">>, 2)
Title == <<"T">>

\* const e, single quotes, A twice
PageDuplicated == PrefixEA \o Stringify(Document(<<A1, B2, A5>>, Title)) \o SuffixEA
\* const e, one contributor, and `const t` in the title: in both lists
PageSingle == PrefixEA \o Stringify(Document(<<A1>>, ConstT)) \o SuffixEA
\* const t, backquotes, A twice
PageBackquoted == PrefixTB \o Stringify(Document(<<A1, B2, A5>>, Title)) \o SuffixTB
\* const e, A twice, and `const t` in the title: in both lists
PageBoth == PrefixEA \o Stringify(Document(<<A1, A5>>, ConstT)) \o SuffixEA
\* const t, no contributor, as json.dumps writes it
PageEmpty == PrefixTA \o json_dumps(Document(<<>>, Title)) \o SuffixTA
\* no wrapper at all: JSON with `const e` in the title
PageBare == Stringify(Document(<<A1, B2>>, ConstE))
\* `const e`, the word capitalised and `const t`: in both lists, and
\* nothing json.loads can load
PageBroken == ConstE \o <<"=", "C">> \o Tail(K_contributors) \o <<";">> \o ConstT
\* the same without `const e`
PageBrokenT == ConstT \o <<"=", "C">> \o Tail(K_contributors)
\* a page without the word: grep does not list it
PageWithout == PrefixEA \o Stringify(JDict(<<<<JStr(Title), JInt(1)>>>>)) \o SuffixEA

Contents == {PageDuplicated, PageSingle, PageBackquoted, PageBoth, PageEmpty,
             PageBare, PageBroken, PageBrokenT, PageWithout}

NoWrite == [path |-> <<>>, loop |-> "-", raw |-> <<>>]

Init ==
    /\ pc = "find_files"
    /\ \E pages \in [PagePaths -> Contents] :
           files = [p \in PagePaths \cup {AppPath} |->
                       IF p = AppPath THEN PageDuplicated ELSE pages[p]]
    /\ walk \in Walks
    /\ orig = files
    /\ afterRun1 = files
    /\ e_contributors_files = <<>>
    /\ t_contributors_files = <<>>
    /\ idx = 1
    /\ run = 1
    /\ log = <<>>
    /\ lastWrite = NoWrite
    /\ doc = Unused /\ variant = Unused /\ text = Unused
    /\ decoded = Unused /\ recomposed = Unused
    /\ x = Unused /\ y = Unused /\ z = Unused

\* line 156: find_files()
FindFiles ==
    /\ pc = "find_files"
    /\ e_contributors_files' =
           e_contributors_files \o FoundWith(walk, files, ConstE)
    /\ t_contributors_files' =
           t_contributors_files \o FoundWith(walk, files, ConstT)
    /\ pc' = "e_loop"
    /\ idx' = 1
    /\ UNCHANGED <<doc, variant, text, decoded, recomposed, x, y, z, files, walk,
                   run, log, lastWrite, orig, afterRun1>>

\* what an iteration that ended as r leaves behind
Iterated(loop, path, r) ==
    /\ files' = [files EXCEPT ![path] = r.content]
    /\ log' = Append(log, [loop |-> loop, path |-> path,
                           raw |-> files[path], ok |-> r.ok])
    /\ lastWrite' = IF r.wrote
                    THEN [path |-> path, loop |-> loop, raw |-> files[path]]
                    ELSE lastWrite
    /\ pc' = AfterBody(pc, r.ok)
    /\ idx' = idx + 1
    /\ UNCHANGED <<doc, variant, text, decoded, recomposed, x, y, z, walk,
                   e_contributors_files, t_contributors_files, run, orig,
                   afterRun1>>

\* one iteration of the loop over list, pc being at that loop
LoopStep(loop, list) ==
    /\ idx <= Len(list)
    /\ Iterated(loop, list[idx], LoopBody(files[list[idx]], loop))

\* lines 159-174
ELoopStep == pc = "e_loop" /\ LoopStep("e", e_contributors_files)

ELoopEnd ==
    /\ pc = "e_loop"
    /\ idx > Len(e_contributors_files)
    /\ pc' = "t_loop"
    /\ idx' = 1
    /\ UNCHANGED <<doc, variant, text, decoded, recomposed, x, y, z, files, walk,
                   e_contributors_files, t_contributors_files, run, log,
                   lastWrite, orig, afterRun1>>

\* lines 177-192
TLoopStep == pc = "t_loop" /\ LoopStep("t", t_contributors_files)

\* the script ends
TLoopEnd ==
    /\ pc = "t_loop"
    /\ idx > Len(t_contributors_files)
    /\ pc' = "done"
    /\ afterRun1' = IF run = 1 THEN files ELSE afterRun1
    /\ UNCHANGED <<doc, variant, text, decoded, recomposed, x, y, z, files, walk,
                   e_contributors_files, t_contributors_files, idx, run, log,
                   lastWrite, orig>>

\* the script is started again on the tree the run before left: a new
\* process, whose two lists are empty again
RunAgain ==
    /\ pc = "done"
    /\ run < MaxRuns
    /\ run' = run + 1
    /\ pc' = "find_files"
    /\ e_contributors_files' = <<>>
    /\ t_contributors_files' = <<>>
    /\ idx' = 1
    /\ log' = <<>>
    /\ UNCHANGED <<doc, variant, text, decoded, recomposed, x, y, z, files, walk,
                   lastWrite, orig, afterRun1>>

Next ==
    \/ FindFiles
    \/ ELoopStep
    \/ ELoopEnd
    \/ TLoopStep
    \/ TLoopEnd
    \/ RunAgain

Spec == Init /\ [][Next]_vars

---------------------------------------------------------------------------
(* Claims on the codec, checked under SpecCodec.                           *)

\* C1: loading the text composed from a document gives the document back,
\* for both compose functions and every document, also one whose string
\* values hold backslashes, quotes or a wrapper prefix or suffix.
C1_LoadGivesDocBack == pc = "decoded" => decoded = Ok(doc)

\* C2: a text that a compose function produced loads, and composing the
\* loaded document with the same function reproduces the text exactly.
C2_ComposeReproducesText ==
    /\ pc = "decoded" => decoded.ok
    /\ pc = "recomposed" => recomposed = text

---------------------------------------------------------------------------
(* Claims on remove_duplicated_contributors, checked under SpecDedupe.     *)

NameOf(r) == GetItem(r, K_name).val

\* the first and the last position of name n in list s
FirstIndex(s, n) ==
    CHOOSE i \in 1..Len(s) :
        /\ NameOf(s[i]) = n
        /\ \A j \in 1..(i - 1) : NameOf(s[j]) # n

LastIndex(s, n) ==
    CHOOSE i \in 1..Len(s) :
        /\ NameOf(s[i]) = n
        /\ \A j \in (i + 1)..Len(s) : NameOf(s[j]) # n

\* [{name:A,commits:1},{name:B,commits:2},{name:A,commits:5}]
ExampleList ==
    <<Contributor(<<"A">>, 1), Contributor(<<"B">>, 2), Contributor(<<"A">>, 5)>>

\* C3: the result holds exactly the names of the input, each once, and the
\* record kept for a name is its earliest occurrence in the input, whole.
C3_OnePerNameEarliestKept ==
    pc = "once" =>
        /\ y.ok
        /\ {NameOf(y.val.v[i]) : i \in 1..Len(y.val.v)}
               = {NameOf(x[i]) : i \in 1..Len(x)}
        /\ \A i, j \in 1..Len(y.val.v) :
               NameOf(y.val.v[i]) = NameOf(y.val.v[j]) => i = j
        /\ \A i \in 1..Len(y.val.v) :
               y.val.v[i] = x[FirstIndex(x, NameOf(y.val.v[i]))]

\* a name occurs twice with different commits, and another name as well
C3_Witness ==
    /\ pc = "once"
    /\ \E i, j \in 1..Len(x) :
           i < j /\ NameOf(x[i]) = NameOf(x[j]) /\ x[i] # x[j]
    /\ Len(y.val.v) = 2

\* C4 as stated: the result lists the names in the reverse of the order of
\* their first appearance in the input, so the example gives B before A.
C4_ReverseOfFirstAppearance ==
    pc = "once" =>
        /\ \A i, j \in 1..Len(y.val.v) :
               i < j => FirstIndex(x, NameOf(y.val.v[i]))
                            > FirstIndex(x, NameOf(y.val.v[j]))
        /\ x = ExampleList =>
               y.val.v = <<Contributor(<<"B">>, 2), Contributor(<<"A">>, 1)>>

\* C4 amended: the result lists the names in the reverse of the order of
\* their last appearance in the input, so the example gives A before B.
C4_ReverseOfLastAppearance ==
    pc = "once" =>
        /\ \A i, j \in 1..Len(y.val.v) :
               i < j => LastIndex(x, NameOf(y.val.v[i]))
                            > LastIndex(x, NameOf(y.val.v[j]))
        /\ x = ExampleList =>
               y.val.v = <<Contributor(<<"A">>, 1), Contributor(<<"B">>, 2)>>

C4_Witness ==
    /\ pc = "once"
    /\ x = ExampleList
    /\ Len(y.val.v) = 2

\* C5: applying the function to its own result changes nothing.
C5_Idempotent == pc = "twice" => z = y

---------------------------------------------------------------------------
(* Claims on the run of the script, checked under Spec.                    *)

\* C6: when the script has run twice, every file holds after the second
\* run what it held after the first.
C6_SecondRunChangesNothing == (pc = "done" /\ run = 2) => files = afterRun1

\* the text loads and its git.contributors is a list of at most one record
FewContributors(raw) ==
    LET js == json_source(raw)
    IN  /\ js.ok
        /\ LET rc == get_raw_contributors(js.val)
           IN  rc.ok /\ rc.val.t = "list" /\ Len(rc.val.v) <= 1

MatchesNoTemplate(raw) ==
    /\ ~Contains(raw, PrefixEA) /\ ~Contains(raw, PrefixEB)
    /\ ~Contains(raw, PrefixTA) /\ ~Contains(raw, PrefixTB)

\* C8: a file of one of the lists that holds none of the four wrappers
\* ends the run with an exception when its turn comes, and is left as it
\* was.
C8_NoTemplateIsFatal ==
    \A i \in 1..Len(log) :
        MatchesNoTemplate(log[i].raw) =>
            ~log[i].ok /\ files[log[i].path] = log[i].raw

\* document d with c at git.contributors and every other field as it is
WithContributors(d, c) ==
    JDict([i \in 1..Len(d.v) |->
        IF d.v[i][1] # JStr(K_git) THEN d.v[i]
        ELSE <<d.v[i][1],
               JDict([j \in 1..Len(d.v[i][2].v) |->
                   IF d.v[i][2].v[j][1] # JStr(K_contributors)
                   THEN d.v[i][2].v[j]
                   ELSE <<d.v[i][2].v[j][1], c>>])>>])

\* C9: a file the script has rewritten had more than one contributor and
\* holds exactly the text composed, by the compose function of the loop
\* that rewrote it, from the loaded document with its contributors
\* deduplicated and nothing else changed; nothing of the old text is left.
C9_RewriteIsWholeComposedDoc ==
    lastWrite # NoWrite =>
        LET js == json_source(lastWrite.raw).val
            rc == get_raw_contributors(js).val
        IN  /\ Len(rc.v) > 1
            /\ files[lastWrite.path] =
                   Compose(lastWrite.loop,
                       json_dumps(WithContributors(js,
                           remove_duplicated_contributors(rc).val)))

\* a rewrite in the second loop that made the file shorter
C9_Witness ==
    /\ lastWrite # NoWrite
    /\ lastWrite.loop = "t"
    /\ Len(files[lastWrite.path]) < Len(lastWrite.raw)

\* the order the two loops go through the files of the two lists
ProcessingOrder ==
    [i \in 1..Len(e_contributors_files) |-> <<"e", e_contributors_files[i]>>]
    \o [i \in 1..Len(t_contributors_files) |-> <<"t", t_contributors_files[i]>>]

\* the files opened so far are the first ones of the processing order, in
\* that order, and only the last of them can have failed, which is when
\* the run has ended with an exception
OneAtATimeUntilFailure ==
    /\ Len(log) <= Len(ProcessingOrder)
    /\ \A i \in 1..Len(log) : <<log[i].loop, log[i].path>> = ProcessingOrder[i]
    /\ \A i \in 1..(Len(log) - 1) : log[i].ok
    /\ pc = "crashed" <=> (log # <<>> /\ ~log[Len(log)].ok)

\* the failing iteration writes nothing and undoes nothing, and after it
\* no file is opened or written
FailureStopsRun ==
    /\ pc' = "crashed" => files' = files
    /\ pc = "crashed" => files' = files /\ log' = log

\* C10: the files are processed one at a time, the first list in its order
\* and then the second in its order; the run stops at the first file that
\* fails to load, which is not modified, no later file is opened or
\* modified, and the files rewritten before keep what was written.
C10_StopsAtFirstFailure == []OneAtATimeUntilFailure /\ [][FailureStopsRun]_vars

\* a run that rewrote a file, then failed on another, with files of the
\* processing order still to come
C10_Witness ==
    /\ pc = "crashed"
    /\ Len(log) < Len(ProcessingOrder)
    /\ \E i \in 1..(Len(log) - 1) : files[log[i].path] # log[i].raw

---------------------------------------------------------------------------
(* Claim on the serialized payload, checked under SpecCodec.               *)

\* what a composed text holds between the opening and the closing marker,
\* with the doubled backslashes halved: the JSON text that was serialized
Payload(composed, v) ==
    LET prefix == IF v = "e" THEN PrefixEA ELSE PrefixTA
        suffix == IF v = "e" THEN SuffixEA ELSE SuffixTA
    IN  str_replace(SubSeq(composed, Len(prefix) + 1,
                           Len(composed) - Len(suffix)),
                    <<BSL, BSL>>, <<BSL>>)

\* the quote at j opens or closes a string: an even number of backslashes
\* stands right before it
StringQuote(s, j) ==
    /\ s[j] = QUO
    /\ LET before == {m \in 1..(j - 1) : s[m] # BSL}
           last   == IF before = {} THEN 0
                     ELSE CHOOSE m \in before : \A n \in before : n <= m
       IN  (j - 1 - last) % 2 = 0

\* the positions of s outside its string literals
Structural(s) ==
    LET quotes == {j \in 1..Len(s) : StringQuote(s, j)}
    IN  {i \in 1..Len(s) :
            /\ i \notin quotes
            /\ Cardinality({j \in quotes : j < i}) % 2 = 0}

\* C11 as stated: the payload holds no whitespace that the serializer
\* added: none outside the string values, so none after a `,` or a `:`.
C11_PayloadIsCompact ==
    pc = "text" =>
        LET s == Payload(text, variant)
        IN  \A i \in Structural(s) : s[i] \notin Whitespace

\* C11 amended: the serializer writes one space after every `,` and every
\* `:` that separates items and keys, and adds no other whitespace.
C11_OneSpaceAfterSeparators ==
    pc = "text" =>
        LET s   == Payload(text, variant)
            out == Structural(s)
        IN  \A i \in out :
                /\ s[i] \in {",", ":"} =>
                       i + 1 \in out /\ s[i + 1] = " "
                /\ s[i] \in Whitespace =>
                       s[i] = " " /\ i - 1 \in out /\ s[i - 1] \in {",", ":"}

\* a payload with both separators, and with a space and a quote inside a
\* string value
C11_Witness ==
    /\ pc = "text"
    /\ LET s   == Payload(text, variant)
           out == Structural(s)
       IN  /\ \E i \in out : s[i] = ","
           /\ \E i \in out : s[i] = ":"
           /\ \E i \in 1..Len(s) : i \notin out /\ s[i] = " "
           /\ \E i \in 2..Len(s) : i \notin out /\ s[i] = QUO /\ s[i - 1] = BSL

=============================================================================
